---- MODULE Spec2Model ----
(***************************************************************************)
(* SmartLearn: question store, attempt log, reminder log and the          *)
(* Streamlit test sessions of app.py, with the bulk importer of           *)
(* import_questions.py.                                                    *)
(*                                                                         *)
(* Text values (question text, answers, chapters, letter choices) are     *)
(* sequences of one-character strings, so that strip(), upper(), [0] and  *)
(* ",".join() are computed rather than assumed.  Student identifiers are  *)
(* opaque and are plain strings.  A question's id is its index in the     *)
(* questions table (INTEGER PRIMARY KEY AUTOINCREMENT, rows are never     *)
(* deleted).  Of a question row only the columns that the modelled code   *)
(* reads are kept: question, answer, chapter.                              *)
(***************************************************************************)
EXTENDS Integers, Sequences, FiniteSets, TLC

VARIABLES
    questions,       \* table questions: sequence of [question, answer, chapter]
    student_scores,  \* table student_scores: sequence of [student_id, question_id, is_correct]
    reminders,       \* table reminders: sequence of [student_id, weak_chapters]
    keys,            \* which of test_questions/test_student/answers are in st.session_state
    test_questions,  \* st.session_state.test_questions: sequence of question ids
    test_student,    \* st.session_state.test_student
    answers,         \* st.session_state.answers: dict in insertion order, <<qid, choice>>
    adaptive,        \* st.session_state["adaptive_<sid>"]: student -> [rows, answers]
    out,             \* what the last run of the page displayed
    grade_in,        \* the (stored row, submitted letter) pair handed to grading
    weak_out         \* a direct call compute_weak_chapters(sid, limit) and what it returned

vars == <<questions, student_scores, reminders, keys, test_questions,
          test_student, answers, adaptive, out, grade_in, weak_out>>

-----------------------------------------------------------------------------
(* Bounds of the model *)

\* rows of student_scores in the two-student specification
MaxScores == 3
\* rows of student_scores in the one-student specification
MaxAttempts == 4
\* largest test size typed into the sidebar
MaxN == 2
\* rows of reminders
MaxReminders == 2
\* rows of student_scores the reminder specification starts from
MaxPast == 2
\* rows of student_scores the analyzer specification starts from
MaxLog == 3
\* characters of a stored answer handed to grading
MaxAnswerLen == 3
\* rows of an imported sheet
MaxRows == 2

-----------------------------------------------------------------------------
(* Python string operations *)

\* characters that str.strip() removes (one whitespace character is modelled)
IsSpace(c) == c = " "

RECURSIVE LStrip(_)
LStrip(s) == IF s # <<>> /\ IsSpace(Head(s)) THEN LStrip(Tail(s)) ELSE s

RECURSIVE RStrip(_)
RStrip(s) ==
    IF s # <<>> /\ IsSpace(s[Len(s)]) THEN RStrip(SubSeq(s, 1, Len(s) - 1)) ELSE s

\* str.strip()
Strip(s) == RStrip(LStrip(s))

UpperChar(c) ==
    CASE c = "a" -> "A"
      [] c = "b" -> "B"
      [] c = "c" -> "C"
      [] c = "d" -> "D"
      [] c = "x" -> "X"
      [] OTHER -> c

\* str.upper()
Upper(s) == [i \in DOMAIN s |-> UpperChar(s[i])]

RECURSIVE Join(_, _)
\* sep.join(parts)
Join(sep, parts) ==
    IF parts = <<>> THEN <<>>
    ELSE IF Len(parts) = 1 THEN parts[1]
    ELSE parts[1] \o sep \o Join(sep, Tail(parts))

Min(a, b) == IF a <= b THEN a ELSE b

\* the values of a sequence
Range(f) == {f[i] : i \in DOMAIN f}

RECURSIVE Arrangements(_, _)
\* sequences of n distinct elements of S
Arrangements(S, n) ==
    IF n = 0 THEN {<<>>}
    ELSE UNION {{<<x>> \o p : p \in Arrangements(S \ {x}, n - 1)} : x \in S}

-----------------------------------------------------------------------------
(* Question store *)

\* no question row carries this text yet (question TEXT UNIQUE)
TextIsNew(qs, text) == \A i \in DOMAIN qs : qs[i].question # text

\* an insert into a table without the UNIQUE constraint
InsertAlways(qs, row) == [ok |-> TRUE, qs |-> Append(qs, row)]

\* INSERT INTO questions: sqlite3.IntegrityError on a repeated text
InsertQuestion(qs, row) ==
    IF TextIsNew(qs, row.question)
    THEN [ok |-> TRUE, qs |-> Append(qs, row)]
    ELSE [ok |-> FALSE, qs |-> qs]

\* the tuple of stripped column values both writers build
StrippedRow(r) ==
    [question |-> Strip(r.question), answer |-> Strip(r.answer),
     chapter |-> Strip(r.chapter)]

RECURSIVE ImportRows(_, _)
\* the loop of import_to_db over the rows of df
ImportRows(qs, df) ==
    IF df = <<>> THEN [qs |-> qs, inserted |-> 0, skipped |-> 0]
    ELSE LET vals == StrippedRow(Head(df))
             ins  == InsertQuestion(qs, vals)
             rest == ImportRows(IF vals.question = <<>> THEN qs ELSE ins.qs, Tail(df))
             done == vals.question # <<>> /\ ins.ok
         IN  [qs |-> rest.qs,
              inserted |-> rest.inserted + (IF done THEN 1 ELSE 0),
              skipped |-> rest.skipped + (IF done THEN 0 ELSE 1)]

-----------------------------------------------------------------------------
(* Grading *)

\* cur.fetchone() of SELECT answer FROM questions WHERE id=?
FetchAnswer(qs, qid) ==
    IF qid \in DOMAIN qs
    THEN [found |-> TRUE, null |-> FALSE, text |-> qs[qid].answer]
    ELSE [found |-> FALSE, null |-> FALSE, text |-> <<>>]

\* row[0].upper()[0]: the first character, whitespace included
CorrectAnsNoStrip(row) ==
    IF row.found /\ ~row.null /\ row.text # <<>>
    THEN [raised |-> FALSE, value |-> <<Upper(row.text)[1]>>]
    ELSE [raised |-> FALSE, value |-> <<>>]

\* row[0].strip().upper()[0] if row and row[0] else ""
\* ([0] of an empty string raises IndexError)
CorrectAns(row) ==
    IF row.found /\ ~row.null /\ row.text # <<>>
    THEN LET t == Upper(Strip(row.text))
         IN  IF t = <<>> THEN [raised |-> TRUE, value |-> <<>>]
             ELSE [raised |-> FALSE, value |-> <<t[1]>>]
    ELSE [raised |-> FALSE, value |-> <<>>]

\* is_correct = 1 if user_choice == correct_ans else 0
IsCorrect(user_choice, row) ==
    IF user_choice = CorrectAns(row).value THEN 1 ELSE 0

\* the rows the submit loop inserts, in the order of the answers dict
\* a submit loop that records a test only when every answer is correct
GradedRowsCorrectOnly(sid, ans, qs) ==
    LET hit == {i \in DOMAIN ans :
                   IsCorrect(ans[i][2], FetchAnswer(qs, ans[i][1])) = 1}
    IN  IF hit = DOMAIN ans
        THEN [i \in DOMAIN ans |->
                 [student_id |-> sid, question_id |-> ans[i][1], is_correct |-> 1]]
        ELSE <<>>

GradedRows(sid, ans, qs) ==
    [i \in DOMAIN ans |->
        [student_id |-> sid, question_id |-> ans[i][1],
         is_correct |-> IsCorrect(ans[i][2], FetchAnswer(qs, ans[i][1]))]]

\* the first iteration of the submit loop that raises: grading raises
\* IndexError, or the INSERT numbered dbfail raises (dbfail > Len(ans): none)
FirstFailure(ans, qs, dbfail) ==
    LET bad == {i \in DOMAIN ans :
                   CorrectAns(FetchAnswer(qs, ans[i][1])).raised \/ i = dbfail}
    IN  IF bad = {} THEN Len(ans) + 1
        ELSE CHOOSE i \in bad : \A j \in bad : i <= j

\* a connection in autocommit mode: every insert before the failure stays
CommitEachRow(log, new, failAt) ==
    log \o SubSeq(new, 1, Min(failAt - 1, Len(new)))

\* the inserts run in the connection's implicit transaction and conn.commit()
\* follows the loop: an exception leaves the loop before the commit and the
\* dropped connection rolls the pending rows back
CommitBatch(log, new, failAt) ==
    IF failAt <= Len(new) THEN log ELSE log \o new

CorrectCount(new) == Cardinality({i \in DOMAIN new : new[i].is_correct = 1})

-----------------------------------------------------------------------------
(* Weak-area analysis *)

\* rows of student_scores JOIN questions for one student and chapter
Joined(log, qs, sid, ch) ==
    {i \in DOMAIN log :
        /\ log[i].student_id = sid
        /\ log[i].question_id \in DOMAIN qs
        /\ qs[log[i].question_id].chapter = ch}

\* COUNT(*) of a group
Total(log, qs, sid, ch) == Cardinality(Joined(log, qs, sid, ch))

\* SUM(s.is_correct) of a group
Correct(log, qs, sid, ch) ==
    Cardinality({i \in Joined(log, qs, sid, ch) : log[i].is_correct = 1})

\* the groups of GROUP BY q.chapter
AttemptedChapters(log, qs, sid) ==
    {qs[log[i].question_id].chapter :
        i \in {j \in DOMAIN log :
                  log[j].student_id = sid /\ log[j].question_id \in DOMAIN qs}}

\* the comparison of ORDER BY ... DESC
AccGeq(correct1, total1, correct2, total2) ==
    correct1 * total2 >= correct2 * total1

\* 1.0*correct1/total1 <= 1.0*correct2/total2, for groups that are not empty
AccLeq(correct1, total1, correct2, total2) ==
    correct1 * total2 <= correct2 * total1

\* the orders ORDER BY (1.0*SUM(s.is_correct)/COUNT(*)) ASC may produce:
\* the order among groups of equal accuracy is not determined by the query
SortedOrders(log, qs, sid) ==
    LET chs == AttemptedChapters(log, qs, sid)
        cor == [c \in chs |-> Correct(log, qs, sid, c)]
        tot == [c \in chs |-> Total(log, qs, sid, c)]
    IN  {p \in Arrangements(chs, Cardinality(chs)) :
            \A i, j \in DOMAIN p :
               i < j => AccLeq(cor[p[i]], tot[p[i]], cor[p[j]], tot[p[j]])}

\* compute_weak_chapters: every list the query may return
WeakResults(log, qs, sid, limit_chaps) ==
    {SubSeq(p, 1, Min(limit_chaps, Len(p))) : p \in SortedOrders(log, qs, sid)}

-----------------------------------------------------------------------------
(* Sampling *)

\* ORDER BY RANDOM() LIMIT n over the rows whose id is in pool
RandomSample(pool, n) == Arrangements(pool, Min(n, Cardinality(pool)))

\* ids of the questions whose chapter is among weak
InChapters(qs, weak) == {i \in DOMAIN qs : qs[i].chapter \in Range(weak)}

\* what adaptive_test_ui uses of the list compute_weak_chapters returned:
\* whether it is empty, and the questions of its chapters
WeakPools(log, qs, sid, limit_chaps) ==
    {[none |-> weak = <<>>, pool |-> InChapters(qs, weak)] :
        weak \in WeakResults(log, qs, sid, limit_chaps)}

\* a view without the "if not rows: return" guard
NoRowsNever(rows) == FALSE

\* "if not rows": the sample is empty
NoRows(rows) == rows = <<>>

\* {r[0]: "" for r in rows}
NewAnswers(rows) == [i \in DOMAIN rows |-> <<rows[i], <<>>>>]

\* the render loop: answers[qid] = choice for every row shown
Rendered(ans, rows, choice) ==
    [i \in DOMAIN ans |->
        IF ans[i][1] \in Range(rows) THEN <<ans[i][1], choice[ans[i][1]]>> ELSE ans[i]]

-----------------------------------------------------------------------------
(* Program constants and the inputs the model draws from *)

\* compute_weak_chapters(student_id, limit_chaps=3)
WeakLimit == 3

\* the options of st.radio
Letters == {<<"A">>, <<"B">>, <<"C">>, <<"D">>}

Students == {"s1", "s2"}

\* the values typed into the sidebar's number input (its minimum is 1)
TestSizes == 1..MaxN

\* the letter a radio shows until it is clicked, the first option; the
\* students of the session specifications leave the radios at it, and the
\* stored answers decide which of their attempts are correct
DefaultChoice == {<<"A">>}

\* a two-row sheet as load_excel returns it (cells of the Question column
\* are not yet stripped)
Sheet2 ==
    << [question |-> <<"p", " ">>, answer |-> <<"A">>, chapter |-> <<"K">>],
       [question |-> <<"q">>, answer |-> <<"B">>, chapter |-> <<"O">>] >>

NoOut == [kind |-> "none", correct |-> 0, total |-> 0]

Message(kind) == [kind |-> kind, correct |-> 0, total |-> 0]

\* st.success(f"... Score: {correct_count}/{total} ({round(100*correct_count/total,2)}%)")
ScoreMessage(correct_count, total) ==
    IF total = 0 THEN Message("ZeroDivisionError")
    ELSE [kind |-> "score", correct |-> correct_count, total |-> total]

NoGrade == [row |-> [found |-> FALSE, null |-> FALSE, text |-> <<>>], choice |-> <<>>]

NoWeak == [sid |-> "", limit |-> 0, chapters |-> <<>>]

-----------------------------------------------------------------------------
(* State after ensure_tables() on a new database and a new browser session *)

Init ==
    /\ questions = <<>>
    /\ student_scores = <<>>
    /\ reminders = <<>>
    /\ keys = {}
    /\ test_questions = <<>>
    /\ test_student = ""
    /\ answers = <<>>
    /\ adaptive = <<>>
    /\ out = NoOut
    /\ grade_in = NoGrade
    /\ weak_out = NoWeak

TestKeys == {"test_questions", "test_student", "answers"}

\* a view that samples on every run
NeedsNewTestAlways(ks, owner, sid) == TRUE

\* "test_questions" not in st.session_state or
\* st.session_state.get("test_student") != student_id
NeedsNewTest(ks, owner, sid) ==
    "test_questions" \notin ks \/ "test_student" \notin ks \/ owner # sid

\* st.session_state.pop(...) of the three test keys
ClearTest ==
    /\ keys' = keys \ TestKeys
    /\ test_questions' = <<>>
    /\ test_student' = ""
    /\ answers' = <<>>

-----------------------------------------------------------------------------
(* Take Test *)

\* one run of take_test_ui without a click on Submit Test
TakeTest(sid, sizes, C) ==
    LET fresh == NeedsNewTest(keys, test_student, sid)
    IN  \E rows \in (IF fresh
                     THEN UNION {RandomSample(DOMAIN questions, n) : n \in sizes}
                     ELSE {test_questions}) :
          IF fresh /\ NoRows(rows)
          THEN /\ out' = Message("notice")
               /\ UNCHANGED <<questions, student_scores, reminders, keys,
                              test_questions, test_student, answers, adaptive,
                              grade_in, weak_out>>
          ELSE \E choice \in [Range(rows) -> C] :
                 /\ keys' = keys \cup TestKeys
                 /\ test_questions' = rows
                 /\ test_student' = sid
                 /\ answers' = Rendered(IF fresh THEN NewAnswers(rows) ELSE answers,
                                        rows, choice)
                 /\ out' = Message("questions shown")
                 /\ UNCHANGED <<questions, student_scores, reminders, adaptive,
                                grade_in, weak_out>>

\* one run of take_test_ui with a click on Submit Test; the button is on
\* the page only after a run that showed this student's test
SubmitTest(sid, C, cap) ==
    /\ ~NeedsNewTest(keys, test_student, sid)
    /\ \E choice \in [Range(test_questions) -> C] :
       \E dbfail \in 1..(Len(answers) + 1) :
         LET rows   == test_questions
             ans    == Rendered(answers, rows, choice)
             new    == GradedRows(sid, ans, questions)
             failAt == FirstFailure(ans, questions, dbfail)
         IN  /\ Len(student_scores) + Len(new) <= cap
             /\ student_scores' = CommitBatch(student_scores, new, failAt)
             /\ IF failAt <= Len(new)
                THEN /\ answers' = ans
                     /\ out' = Message("exception")
                     /\ UNCHANGED <<keys, test_questions, test_student>>
                ELSE /\ ClearTest
                     /\ out' = ScoreMessage(CorrectCount(new), Len(rows))
             /\ UNCHANGED <<questions, reminders, adaptive, grade_in, weak_out>>

-----------------------------------------------------------------------------
(* Adaptive Test *)

HasAdaptive(sid) == sid \in DOMAIN adaptive

\* st.session_state[key] = value
PutAdaptive(sid, sess) ==
    [s \in DOMAIN adaptive \cup {sid} |-> IF s = sid THEN sess ELSE adaptive[s]]

\* st.session_state.pop(key, None)
PopAdaptive(sid) == [s \in DOMAIN adaptive \ {sid} |-> adaptive[s]]

\* if key not in st.session_state: st.session_state[key] = {"rows": rows, ...}
AdaptiveSession(sid, rows) ==
    IF HasAdaptive(sid) THEN adaptive[sid]
    ELSE [rows |-> rows, answers |-> NewAnswers(rows)]

\* one run of adaptive_test_ui without a click on Submit Adaptive Test
AdaptiveTest(sid, sizes, C) ==
    \E weak \in WeakPools(student_scores, questions, sid, WeakLimit) :
      IF weak.none
      THEN /\ out' = Message("notice")
           /\ UNCHANGED <<questions, student_scores, reminders, keys,
                          test_questions, test_student, answers, adaptive, grade_in, weak_out>>
      ELSE \E rows \in UNION {RandomSample(weak.pool, n) : n \in sizes} :
             IF NoRows(rows)
             THEN /\ out' = Message("notice")
                  /\ UNCHANGED <<questions, student_scores, reminders, keys,
                                 test_questions, test_student, answers, adaptive,
                                 grade_in, weak_out>>
             ELSE LET sess == AdaptiveSession(sid, rows)
                  IN  \E choice \in [Range(sess.rows) -> C] :
                        /\ adaptive' = PutAdaptive(sid,
                               [rows |-> sess.rows,
                                answers |-> Rendered(sess.answers, sess.rows, choice)])
                        /\ out' = Message("questions shown")
                        /\ UNCHANGED <<questions, student_scores, reminders, keys,
                                       test_questions, test_student, answers,
                                       grade_in, weak_out>>

\* one run of adaptive_test_ui with a click on Submit Adaptive Test; the
\* button is on the page only after a run that showed this student's session
SubmitAdaptive(sid, sizes, C, cap) ==
    /\ HasAdaptive(sid)
    /\ \E weak \in WeakPools(student_scores, questions, sid, WeakLimit) :
         IF weak.none
         THEN /\ out' = Message("notice")
              /\ UNCHANGED <<questions, student_scores, reminders, keys,
                             test_questions, test_student, answers, adaptive,
                             grade_in, weak_out>>
         ELSE \E rows \in UNION {RandomSample(weak.pool, n) : n \in sizes} :
                IF NoRows(rows)
                THEN /\ out' = Message("notice")
                     /\ UNCHANGED <<questions, student_scores, reminders, keys,
                                    test_questions, test_student, answers,
                                    adaptive, grade_in, weak_out>>
                ELSE LET sess == AdaptiveSession(sid, rows)
                     IN  \E choice \in [Range(sess.rows) -> C] :
                         \E dbfail \in 1..(Len(sess.answers) + 1) :
                           LET ans    == Rendered(sess.answers, sess.rows, choice)
                               new    == GradedRows(sid, ans, questions)
                               failAt == FirstFailure(ans, questions, dbfail)
                           IN  /\ Len(student_scores) + Len(new) <= cap
                               /\ student_scores' =
                                      CommitBatch(student_scores, new, failAt)
                               /\ IF failAt <= Len(new)
                                  THEN /\ adaptive' = PutAdaptive(sid,
                                              [rows |-> sess.rows, answers |-> ans])
                                       /\ out' = Message("exception")
                                  ELSE /\ adaptive' = PopAdaptive(sid)
                                       /\ out' = ScoreMessage(CorrectCount(new),
                                                              Len(rows))
                               /\ UNCHANGED <<questions, reminders, keys,
                                              test_questions, test_student,
                                              answers, grade_in, weak_out>>

-----------------------------------------------------------------------------
(* Reminders *)

\* a writer that keeps one reminder per student
SaveReminderPerStudent(rems, sid, weak_chaps) ==
    LET IsOther(r) == r.student_id # sid
    IN  Append(SelectSeq(rems, IsOther),
               [student_id |-> sid,
                weak_chapters |-> Join(<<",">>, weak_chaps),
                reminder_text |-> Join(<<",", " ">>, weak_chaps)])

\* save_reminder; of reminder_text the part that varies is kept
SaveReminder(rems, sid, weak_chaps) ==
    Append(rems, [student_id |-> sid,
                  weak_chapters |-> Join(<<",">>, weak_chaps),
                  reminder_text |-> Join(<<",", " ">>, weak_chaps)])

\* the students reminders_ui lists a button for
Listed(log) == {log[i].student_id : i \in DOMAIN log}

\* a click on "Generate reminder for <sid>"
GenerateReminder(sid, cap) ==
    /\ sid \in Listed(student_scores)
    /\ Len(reminders) < cap
    /\ \E weak_chaps \in WeakResults(student_scores, questions, sid, WeakLimit) :
         IF weak_chaps = <<>>
         THEN /\ out' = Message("notice")
              /\ UNCHANGED reminders
         ELSE /\ reminders' = SaveReminder(reminders, sid, weak_chaps)
              /\ out' = Message("reminder saved")
    /\ UNCHANGED <<questions, student_scores, keys, test_questions, test_student,
                   answers, adaptive, grade_in, weak_out>>

-----------------------------------------------------------------------------
(* Writers of the question store *)

\* the Add Question form, submitted
AddQuestion(form) ==
    /\ IF Strip(form.question) = <<>>
       THEN /\ out' = Message("empty text")
            /\ UNCHANGED questions
       ELSE LET ins == InsertQuestion(questions, StrippedRow(form))
            IN  /\ questions' = ins.qs
                /\ out' = Message(IF ins.ok THEN "added" ELSE "duplicate skipped")
    /\ UNCHANGED <<student_scores, reminders, keys, test_questions, test_student,
                   answers, adaptive, grade_in, weak_out>>

\* import_to_db(df, conn), committed; the script prints its counts on the
\* console and shows nothing on the page
ImportQuestions(df) ==
    /\ questions' = ImportRows(questions, df).qs
    /\ UNCHANGED <<student_scores, reminders, keys, test_questions,
                   test_student, answers, adaptive, out, grade_in, weak_out>>

-----------------------------------------------------------------------------
(* Two students sharing one browser session over a two-question store *)

Next ==
    \/ \E sid \in Students : TakeTest(sid, TestSizes, DefaultChoice)
    \/ \E sid \in Students : SubmitTest(sid, DefaultChoice, MaxScores)
    \/ \E sid \in Students : AdaptiveTest(sid, TestSizes, DefaultChoice)
    \/ \E sid \in Students : SubmitAdaptive(sid, TestSizes, DefaultChoice, MaxScores)
    \/ ImportQuestions(Sheet2)

Spec == Init /\ [][Next]_vars

-----------------------------------------------------------------------------
(* One student over a store of four chapters *)

\* a four-row sheet as load_excel returns it, one chapter per question
Sheet4 ==
    << [question |-> <<"p">>, answer |-> <<"A">>, chapter |-> <<"K">>],
       [question |-> <<"q">>, answer |-> <<"B">>, chapter |-> <<"O">>],
       [question |-> <<"r">>, answer |-> <<"B">>, chapter |-> <<"W">>],
       [question |-> <<"t">>, answer |-> <<"B">>, chapter |-> <<"E">>] >>

NextAdaptive ==
    \/ TakeTest("s1", TestSizes, DefaultChoice)
    \/ SubmitTest("s1", DefaultChoice, MaxAttempts)
    \/ AdaptiveTest("s1", TestSizes, DefaultChoice)
    \/ SubmitAdaptive("s1", TestSizes, DefaultChoice, MaxAttempts)
    \/ ImportQuestions(Sheet4)

SpecAdaptive == Init /\ [][NextAdaptive]_vars

-----------------------------------------------------------------------------
(* The writers of the question store, from the empty store *)

Texts == {<<"p">>, <<" ", "p">>, <<"q", " ">>, <<"q">>, <<"r">>, <<" ">>}

\* rows of a sheet: the Question cell as typed, the Answer cell as
\* normalize_answer leaves it (a letter, or text it could not resolve)
SheetRows ==
    {[question |-> t, answer |-> a, chapter |-> <<"K">>] :
        t \in Texts, a \in {<<"A">>, <<"x">>}}

\* the Add Question form: the answer is one of the options of its selectbox
StoreForms ==
    {[question |-> t, answer |-> a, chapter |-> <<"O", " ">>] :
        t \in Texts, a \in {<<"B">>}}

Sheets == UNION {[1..n -> SheetRows] : n \in 0..MaxRows}

NextStore ==
    \/ \E form \in StoreForms : AddQuestion(form)
    \/ \E df \in Sheets : ImportQuestions(df)

SpecStore == Init /\ [][NextStore]_vars

-----------------------------------------------------------------------------
(* Grading one stored answer against one submitted letter *)

AnswerChars == {" ", "a", "A", "b", "B", "c", "D", "x"}

StoredTexts == UNION {[1..n -> AnswerChars] : n \in 0..MaxAnswerLen}

\* what cur.fetchone() may hand to the grading line
FetchedRows ==
    {[found |-> TRUE, null |-> FALSE, text |-> t] : t \in StoredTexts}
        \cup {[found |-> TRUE, null |-> TRUE, text |-> <<>>],
              [found |-> FALSE, null |-> FALSE, text |-> <<>>]}

InitGrade ==
    /\ questions = <<>>
    /\ student_scores = <<>>
    /\ reminders = <<>>
    /\ keys = {}
    /\ test_questions = <<>>
    /\ test_student = ""
    /\ answers = <<>>
    /\ adaptive = <<>>
    /\ out = NoOut
    /\ grade_in \in [row : FetchedRows, choice : Letters]
    /\ weak_out = NoWeak

\* the two grading lines of the submit loop, on one fetched row
Grade ==
    /\ out.kind = "none"
    /\ out' = IF CorrectAns(grade_in.row).raised
              THEN Message("IndexError")
              ELSE [kind |-> "graded",
                    correct |-> IsCorrect(grade_in.choice, grade_in.row),
                    total |-> 1]
    /\ UNCHANGED <<questions, student_scores, reminders, keys, test_questions,
                   test_student, answers, adaptive, grade_in, weak_out>>

SpecGrade == InitGrade /\ [][Grade]_vars

-----------------------------------------------------------------------------
(* The analyzer and the reminder generator over recorded histories *)

\* a three-row sheet, one chapter per question
Sheet3 ==
    << [question |-> <<"p">>, answer |-> <<"A">>, chapter |-> <<"K">>],
       [question |-> <<"q">>, answer |-> <<"B">>, chapter |-> <<"O">>],
       [question |-> <<"r">>, answer |-> <<"B">>, chapter |-> <<"W">>] >>

\* attempts that submissions over the imported Sheet3 record
PastRows ==
    {[student_id |-> "s1", question_id |-> q, is_correct |-> c] :
        q \in 1..3, c \in {0, 1}}
        \cup {[student_id |-> "s2", question_id |-> 1, is_correct |-> 1]}

Histories(n) == UNION {[1..k -> PastRows] : k \in 0..n}

InitPast(n) ==
    /\ questions = ImportRows(<<>>, Sheet3).qs
    /\ student_scores \in Histories(n)
    /\ reminders = <<>>
    /\ keys = {}
    /\ test_questions = <<>>
    /\ test_student = ""
    /\ answers = <<>>
    /\ adaptive = <<>>
    /\ out = NoOut
    /\ grade_in = NoGrade
    /\ weak_out = NoWeak

\* a call compute_weak_chapters(sid, limit_chaps)
ComputeWeak(sid, limit_chaps) ==
    /\ \E chapters \in WeakResults(student_scores, questions, sid, limit_chaps) :
         weak_out' = [sid |-> sid, limit |-> limit_chaps, chapters |-> chapters]
    /\ UNCHANGED <<questions, student_scores, reminders, keys, test_questions,
                   test_student, answers, adaptive, out, grade_in>>

SpecAnalyzer ==
    InitPast(MaxLog)
        /\ [][\E sid \in Students, limit_chaps \in 0..WeakLimit :
                 ComputeWeak(sid, limit_chaps)]_vars

SpecReminder ==
    InitPast(MaxPast)
        /\ [][\E sid \in Students : GenerateReminder(sid, MaxReminders)]_vars

-----------------------------------------------------------------------------
(* Session states *)

\* the Take Test session in st.session_state belongs to sid
InProgressTake(sid) == TestKeys \subseteq keys /\ test_student = sid

\* sid holds a session of either kind
Held(sid) == InProgressTake(sid) \/ HasAdaptive(sid)

\* seq2 starts with seq1
IsPrefix(seq1, seq2) ==
    Len(seq1) <= Len(seq2) /\ SubSeq(seq2, 1, Len(seq1)) = seq1

\* log2 is log1 followed by one row per question id of rows, all under sid
BatchOf(log1, log2, sid, rows) ==
    /\ Len(log2) = Len(log1) + Len(rows)
    /\ SubSeq(log2, 1, Len(log1)) = log1
    /\ \A i \in DOMAIN rows :
         /\ log2[Len(log1) + i].student_id = sid
         /\ log2[Len(log1) + i].question_id = rows[i]

-----------------------------------------------------------------------------
(* C1: re-entering a test view while the student's session is in progress
   keeps the session's question ids: across every step that leaves a
   student's Take Test session, or adaptive session, in progress, its
   question ids are the ones it held before the step. *)
C1_ResumeKeepsQuestions ==
    [][\A sid \in Students :
          /\ (InProgressTake(sid) /\ InProgressTake(sid)')
                => test_questions' = test_questions
          /\ (HasAdaptive(sid) /\ HasAdaptive(sid)')
                => adaptive'[sid].rows = adaptive[sid].rows]_vars

\* a run with the Submit click re-entered the view of s1's two-question test,
\* its write failed, and the session is still in progress
C1_Witness ==
    /\ InProgressTake("s1")
    /\ Len(test_questions) = 2
    /\ out.kind = "exception"

(* C2: starting a test for one student while another student's session is
   in progress discards the other student's session: after a step in which
   a session of student b comes into being, no other student holds one. *)
C2_StartDiscardsOthers ==
    [][\A a, b \in Students :
          (/\ a # b
           /\ Held(a)
           /\ \/ ~InProgressTake(b) /\ InProgressTake(b)'
              \/ ~HasAdaptive(b) /\ HasAdaptive(b)')
          => ~Held(a)']_vars

(* C3: a submission of a session holding k questions appends exactly k rows,
   one per question id of the session and all under the submitting student,
   keeps the earlier rows, and discards the session: every step that
   changes the attempt log or removes a session is such a submission, shows
   a score, and leaves the student without a session so that the next
   entry draws a new sample. *)
C3_SubmitAppendsSession ==
    [][LET takePopped == "test_questions" \in keys /\ "test_questions" \notin keys'
           popped(sid) == HasAdaptive(sid) /\ ~HasAdaptive(sid)'
           takeDone ==
               /\ takePopped
               /\ BatchOf(student_scores, student_scores', test_student, test_questions)
               /\ keys' \cap TestKeys = {}
               /\ \A sid \in Students : NeedsNewTest(keys', test_student', sid)
               /\ adaptive' = adaptive
           adaptiveDone(sid) ==
               /\ popped(sid)
               /\ BatchOf(student_scores, student_scores', sid, adaptive[sid].rows)
               /\ DOMAIN adaptive' = DOMAIN adaptive \ {sid}
               /\ ~takePopped
       IN  (student_scores' # student_scores \/ takePopped
               \/ \E sid \in Students : popped(sid))
           => /\ out'.kind = "score"
              /\ takeDone \/ \E sid \in Students : adaptiveDone(sid)]_vars

\* a two-question test was submitted onto a log that already held a row
C3_Witness ==
    /\ out.kind = "score"
    /\ out.total = 2
    /\ Len(student_scores) = 3
    /\ student_scores[2].student_id = student_scores[3].student_id
    /\ student_scores[2].question_id # student_scores[3].question_id

(* C4: recording the attempts of one submission is atomic: a step that ends
   in an exception leaves the attempt log as it was, and every step leaves
   the log either unchanged or extended by the whole batch of a session
   that was held, never by a part of it. *)
C4_BatchAtomic ==
    [][/\ out'.kind = "exception" => student_scores' = student_scores
       /\ \/ student_scores' = student_scores
          \/ BatchOf(student_scores, student_scores', test_student, test_questions)
          \/ \E sid \in DOMAIN adaptive :
                BatchOf(student_scores, student_scores', sid, adaptive[sid].rows)]_vars

\* the submission of a two-question session failed and the log holds only
\* whole earlier batches
C4_Witness ==
    /\ out.kind = "exception"
    /\ "test_questions" \in keys
    /\ Len(test_questions) = 2
    /\ Len(student_scores) = 1

(* C8: no session of size zero exists and no score is computed over a zero
   total: every held session has at least one question, the score line
   never divides by zero, every score shown has a total of at least 1, and
   while the question store is empty no session exists and nothing has
   been written. *)
C8_NoEmptySession ==
    /\ "test_questions" \in keys => Len(test_questions) >= 1
    /\ \A sid \in DOMAIN adaptive : Len(adaptive[sid].rows) >= 1
    /\ out.kind # "ZeroDivisionError"
    /\ out.kind = "score" => out.total >= 1
    /\ questions = <<>> =>
          /\ keys = {}
          /\ DOMAIN adaptive = {}
          /\ student_scores = <<>>

\* Take Test was entered over the empty store: a notice, and no session
C8_Witness ==
    /\ questions = <<>>
    /\ out.kind = "notice"
    /\ keys = {}

(* C5: weakestChapters(studentId, limit) returns exactly
   min(limit, number of chapters the student attempted) distinct chapter
   names, each attempted by the student, in non-decreasing order of
   accuracy, and no attempted chapter left out is more inaccurate than a
   returned one; for a student without attempts it returns the empty list. *)
C5_WeakestChapters ==
    weak_out.sid # "" =>
        LET sid == weak_out.sid
            w   == weak_out.chapters
            mine == {i \in DOMAIN student_scores : student_scores[i].student_id = sid}
            chapterOf(i) == questions[student_scores[i].question_id].chapter
            tried(c) == {i \in mine : chapterOf(i) = c}
            right(c) == {i \in tried(c) : student_scores[i].is_correct = 1}
            chaps == {chapterOf(i) : i \in mine}
            notAbove(c1, c2) ==
                Cardinality(right(c1)) * Cardinality(tried(c2))
                    <= Cardinality(right(c2)) * Cardinality(tried(c1))
        IN  /\ Len(w) = Min(weak_out.limit, Cardinality(chaps))
            /\ \A i \in DOMAIN w : w[i] \in chaps
            /\ \A i, j \in DOMAIN w : i < j => w[i] # w[j] /\ notAbove(w[i], w[j])
            /\ \A c \in chaps \ Range(w) : \A i \in DOMAIN w : notAbove(w[i], c)
            /\ mine = {} => w = <<>>

\* limit 1 over three attempted chapters, of which K alone was answered wrongly
C5_Witness ==
    /\ weak_out = [sid |-> "s1", limit |-> 1, chapters |-> << <<"K">> >>]
    /\ Len(student_scores) = 3
    /\ \A q \in 1..3 : \E i \in DOMAIN student_scores :
          /\ student_scores[i].student_id = "s1"
          /\ student_scores[i].question_id = q
          /\ student_scores[i].is_correct = (IF q = 1 THEN 0 ELSE 1)

\* text is one letter of A-D, in either case, between any whitespace
IsPaddedLetter(text, letter) ==
    \E i \in DOMAIN text :
        /\ letter \in {"A", "B", "C", "D"}
        /\ text[i] \in {letter, CHOOSE c \in {"a", "b", "c", "d"} : UpperChar(c) = letter}
        /\ \A j \in DOMAIN text : j # i => text[j] = " "

(* C6: grading is case-insensitive and whitespace-tolerant on the stored
   answer: a stored answer that is a letter L of A-D in either case, with
   any leading or trailing whitespace, grades a submitted L as correct and
   every other submitted letter as incorrect. *)
C6_GradingTolerant ==
    \A letter \in {"A", "B", "C", "D"} :
        (/\ out.kind # "none"
         /\ grade_in.row.found
         /\ ~grade_in.row.null
         /\ IsPaddedLetter(grade_in.row.text, letter))
        => /\ out.kind = "graded"
           /\ out.correct = (IF grade_in.choice = <<letter>> THEN 1 ELSE 0)

\* the stored answer " b " graded a submitted B as correct
C6_Witness ==
    /\ grade_in.row.text = <<" ", "b", " ">>
    /\ grade_in.choice = <<"B">>
    /\ out.kind = "graded"
    /\ out.correct = 1

(* C7: every question held by an adaptive test session belongs to one of
   the student's weakest chapters (limit 3) at the moment the questions are
   shown: when the page has just shown the adaptive questions (questions
   are shown and no Take Test session is held), the chapter of every held
   question is in some list weakestChapters may return for the student's
   current history. *)
C7_SessionInWeakChapters ==
    (out.kind = "questions shown" /\ "test_questions" \notin keys) =>
        \A sid \in DOMAIN adaptive :
            \A i \in DOMAIN adaptive[sid].rows :
                \E weak \in WeakResults(student_scores, questions, sid, WeakLimit) :
                    questions[adaptive[sid].rows[i]].chapter \in Range(weak)

(* C9: adding a question whose trimmed text is already stored leaves the
   store unchanged and is not a failure, and no two stored questions have
   the same text: every step keeps the stored rows as they are, appends
   only rows whose text is trimmed, non-empty and new, raises nothing, and
   a form submission that reports a duplicate leaves the store unchanged. *)
C9_DuplicateIgnored ==
    [][/\ IsPrefix(questions, questions')
       /\ \A i, j \in DOMAIN questions' :
             i # j => questions'[i].question # questions'[j].question
       /\ \A i \in DOMAIN questions' :
             LET text == questions'[i].question
             IN  text # <<>> /\ text[1] # " " /\ text[Len(text)] # " "
       /\ out'.kind \in {"added", "duplicate skipped", "empty text", "none"}
       /\ out' # out /\ out'.kind = "duplicate skipped" => questions' = questions
       /\ out' # out /\ out'.kind = "added"
             => Len(questions') = Len(questions) + 1]_vars

\* the form was submitted with the text of the question a sheet had brought
\* in, and the sheet's row is still the only one
C9_Witness ==
    /\ out.kind = "duplicate skipped"
    /\ Len(questions) = 1
    /\ questions[1].chapter = <<"K">>

(* C10: generateReminder(studentId) appends exactly one Reminder row holding
   the comma-joined weakestChapters(studentId, 3) result when that result
   is not empty and writes nothing when it is empty; reminders are never
   deduplicated, and no existing Reminder is modified or removed. *)
C10_ReminderAppended ==
    [][/\ IsPrefix(reminders, reminders')
       /\ Len(reminders') <= Len(reminders) + 1
       /\ reminders' # reminders =>
             \E sid \in Students :
             \E weak \in WeakResults(student_scores, questions, sid, WeakLimit) :
                /\ weak # <<>>
                /\ reminders'[Len(reminders')].student_id = sid
                /\ reminders'[Len(reminders')].weak_chapters = Join(<<",">>, weak)
       /\ out'.kind = "reminder saved" /\ out.kind # "reminder saved"
             => Len(reminders') = Len(reminders) + 1
       /\ out'.kind = "notice" => reminders' = reminders]_vars

\* two generations in a row for the same student left two identical rows
\* that name more than one chapter
C10_Witness ==
    /\ Len(reminders) = 2
    /\ reminders[1] = reminders[2]
    /\ \E i \in DOMAIN reminders[1].weak_chapters :
          reminders[1].weak_chapters[i] = ","

-----------------------------------------------------------------------------
(* Leaderboard *)

\* attempts of three students that the leaderboard groups
MaxBoardLog == 4

BoardStudents == {"s1", "s2", "s3"}

\* attempts on the first question of the imported Sheet3
BoardAttempts ==
    {[student_id |-> s, question_id |-> 1, is_correct |-> c] :
        s \in BoardStudents, c \in {0, 1}}

\* ROUND(100.0*correct/attempted, 2), in hundredths of a percent
Round2(correct, attempted) == (20000 * correct + attempted) \div (2 * attempted)

\* one row of SELECT ... GROUP BY s.student_id
BoardRow(log, sid) ==
    LET mine == {i \in DOMAIN log : log[i].student_id = sid}
        attempted == Cardinality(mine)
        correct == Cardinality({i \in mine : log[i].is_correct = 1})
    IN  [student |-> sid, attempted |-> attempted, correct |-> correct,
         accuracy |-> Round2(correct, attempted)]

\* an ORDER BY that sorts by accuracy alone
BoardBeforeAccuracyOnly(r1, r2) == r1.accuracy >= r2.accuracy

\* ORDER BY accuracy DESC, attempted DESC: r1 may stand before r2
BoardBefore(r1, r2) ==
    \/ r1.accuracy > r2.accuracy
    \/ r1.accuracy = r2.accuracy /\ r1.attempted >= r2.attempted

\* every frame the leaderboard query may return: the order of rows equal in
\* accuracy and in attempted is not determined by the query
LeaderboardFrames(log) ==
    LET rows == {BoardRow(log, sid) : sid \in {log[i].student_id : i \in DOMAIN log}}
    IN  {p \in Arrangements(rows, Cardinality(rows)) :
            \A i, j \in DOMAIN p : i < j => BoardBefore(p[i], p[j])}

\* what st.dataframe(df) shows
BoardMessage(df) == [kind |-> "leaderboard", correct |-> 0, total |-> 0, rows |-> df]

\* one run of leaderboard_ui
Leaderboard ==
    /\ \E df \in LeaderboardFrames(student_scores) :
         out' = IF df = <<>> THEN Message("notice") ELSE BoardMessage(df)
    /\ UNCHANGED <<questions, student_scores, reminders, keys, test_questions,
                   test_student, answers, adaptive, grade_in, weak_out>>

InitBoard ==
    /\ questions = ImportRows(<<>>, Sheet3).qs
    /\ student_scores \in UNION {[1..k -> BoardAttempts] : k \in 0..MaxBoardLog}
    /\ reminders = <<>>
    /\ keys = {}
    /\ test_questions = <<>>
    /\ test_student = ""
    /\ answers = <<>>
    /\ adaptive = <<>>
    /\ out = NoOut
    /\ grade_in = NoGrade
    /\ weak_out = NoWeak

SpecLeaderboard == InitBoard /\ [][Leaderboard]_vars

(* C11: the leaderboard lists each student with at least one attempt exactly
   once, with that student's attempt count, correct count and accuracy
   rounded to two decimals, sorted descending by the listed accuracy and, for two students with equal
   accuracy, the one with more attempts first; computing it leaves the
   Attempt Log and the Question Store unchanged. *)
C11_LeaderboardOrder ==
    [][/\ student_scores' = student_scores
       /\ questions' = questions
       /\ out'.kind = "leaderboard" =>
            LET df == out'.rows
                mine(s) == {k \in DOMAIN student_scores :
                               student_scores[k].student_id = s}
                right(s) == {k \in mine(s) : student_scores[k].is_correct = 1}
            IN  /\ {df[i].student : i \in DOMAIN df}
                      = {student_scores[k].student_id : k \in DOMAIN student_scores}
                /\ \A i, j \in DOMAIN df : i # j => df[i].student # df[j].student
                /\ \A i \in DOMAIN df :
                      /\ df[i].attempted = Cardinality(mine(df[i].student))
                      /\ df[i].correct = Cardinality(right(df[i].student))
                      /\ df[i].attempted >= 1
                      /\ df[i].accuracy = Round2(df[i].correct, df[i].attempted)
                /\ \A i, j \in DOMAIN df : i < j =>
                      /\ df[i].accuracy >= df[j].accuracy
                      /\ df[i].accuracy = df[j].accuracy
                            => df[i].attempted >= df[j].attempted
       /\ out'.kind = "notice" => student_scores = <<>>]_vars

\* three students listed; the first two are equal in accuracy and the one
\* with two attempts stands before the one with one attempt
C11_Witness ==
    /\ out.kind = "leaderboard"
    /\ Len(out.rows) = 3
    /\ out.rows[1].accuracy = out.rows[2].accuracy
    /\ out.rows[1].attempted = 2
    /\ out.rows[2].attempted = 1
    /\ out.rows[3].accuracy < out.rows[2].accuracy

(* C12: in every submission, of a Take Test and of an Adaptive Test, the
   reported score correct/total agrees with what was written: total is the
   number of Attempt rows the submission appended, correct is the number of
   appended rows whose correctness flag is 1, and 0 <= correct <= total;
   also when the view was entered again with another requested test size,
   or with changed history, before submitting. *)
C12_ScoreMatchesWritten ==
    [][(out'.kind \in {"score", "ZeroDivisionError"}
            /\ student_scores' # student_scores) =>
          LET appended == SubSeq(student_scores', Len(student_scores) + 1,
                                 Len(student_scores'))
          IN  /\ IsPrefix(student_scores, student_scores')
              /\ out'.kind = "score"
              /\ out'.total = Len(appended)
              /\ out'.correct = Cardinality({i \in DOMAIN appended :
                                                appended[i].is_correct = 1})
              /\ 0 <= out'.correct
              /\ out'.correct <= out'.total]_vars

(* C13: grading is total over stored answer values: for every stored answer
   (null, empty, whitespace only, a letter, free text) and every submitted
   letter, grading yields a correctness flag of 0 or 1 and raises nothing,
   so that a stored answer that is not a clean letter causes at most a
   misgrade and never an aborted submission. *)
C13_GradingTotal ==
    out.kind # "none" =>
        /\ out.kind = "graded"
        /\ out.correct \in {0, 1}

====
